---- MODULE Spec2Model ----
(***************************************************************************)
(* Order / stock / payment coordination of the Bozorli backend.            *)
(*                                                                         *)
(* The persisted rows (products, orders, payments, tasks) are the shared   *)
(* state; no handler of the sources writes a task row.                     *)
(* Every HTTP request is handled by an async Express handler: the code     *)
(* between two awaits runs without interruption, and every awaited query   *)
(* (a find, a save, a create, an update) takes effect at one instant.      *)
(* A request is therefore a sequence of steps, one per awaited query, and  *)
(* the steps of different requests interleave freely: the handlers open no *)
(* transaction and take no lock.                                           *)
(*                                                                         *)
(* Conventions of the model:                                               *)
(*  - the sources spell one column both in camelCase and in snake_case     *)
(*    (reserved_quantity / reservedQuantity, store_id / storeId, ...);     *)
(*    both spellings denote the one persisted field;                       *)
(*  - instance.save() writes the attributes whose value differs from the   *)
(*    value the instance was loaded with, and runs the validators of the   *)
(*    model definition first;                                              *)
(*  - new Date() is abstracted to the value Now, NoDate is a null column;  *)
(*  - prices and amounts are left out: no modelled decision reads them.    *)
(***************************************************************************)
EXTENDS Integers, Sequences, FiniteSets, TLC

VARIABLES products, orders, payments, tasks, req, last

vars == <<products, orders, payments, tasks, req, last>>

(* ------------------------------ bounds -------------------------------- *)
MaxOrders == 2
MaxReq == 2
MaxStock == 2
MaxQty == 2
MaxLines == 2
MaxPayments == 2

Reqs == 1..MaxReq
Products == {"p1", "p2"}
Users == {"u1", "u2"}
ClientKeys == {"k1", "k2"}
NoKey == "none"
UuidPool == <<"uuid1", "uuid2", "uuid3", "uuid4", "uuid5", "uuid6", "uuid7", "uuid8">>
Reasons == {"null", "changed my mind"}

Null == "null"
Absent == "absent"
NoDate == 0
Now == 1

Max(a, b) == IF a >= b THEN a ELSE b

(* --------------------------- Order model ------------------------------ *)
OrderStatuses ==
  {"created", "payment_pending", "confirmed", "assigning", "courier_assigned",
   "en_route_to_store", "at_store", "picking", "en_route_to_customer",
   "delivered", "completed", "cancelled", "refunded"}

PaymentMethods == {"card", "cash", "wallet"}

validTransitions(status) ==
  CASE status = "created" -> {"payment_pending", "cancelled"}
    [] status = "payment_pending" -> {"confirmed", "cancelled"}
    [] status = "confirmed" -> {"assigning", "cancelled"}
    [] status = "assigning" -> {"courier_assigned", "cancelled"}
    [] status = "courier_assigned" -> {"en_route_to_store", "cancelled"}
    [] status = "en_route_to_store" -> {"at_store", "cancelled"}
    [] status = "at_store" -> {"picking", "cancelled"}
    [] status = "picking" -> {"en_route_to_customer", "cancelled"}
    [] status = "en_route_to_customer" -> {"delivered", "cancelled"}
    [] status = "delivered" -> {"completed", "cancelled"}
    [] status = "completed" -> {}
    [] status = "cancelled" -> {}
    [] status = "refunded" -> {}
    [] OTHER -> {}

canTransitionToSkipsTerminal(order, newStatus) ==
  \/ newStatus \in validTransitions(order.status)
  \/ order.status = "completed" /\ newStatus = "refunded"

canTransitionTo(order, newStatus) ==
  newStatus \in validTransitions(order.status)

\* switch (newStatus) of transitionTo: the stage timestamps
stampStage(order, newStatus) ==
  CASE newStatus = "confirmed" -> [order EXCEPT !.confirmedAt = Now]
    [] newStatus = "courier_assigned" -> [order EXCEPT !.assignedAt = Now]
    [] newStatus = "en_route_to_customer" -> [order EXCEPT !.pickedUpAt = Now]
    [] newStatus = "delivered" ->
         [order EXCEPT !.deliveredAt = Now, !.actualDeliveryTime = Now]
    [] newStatus = "cancelled" -> [order EXCEPT !.cancelledAt = Now]
    [] OTHER -> order

\* Object.assign(this, additionalData): every key the payload carries
\* overwrites the field of that name (Absent: the payload has no such key)
assignFields(order, additionalData) ==
  [f \in DOMAIN order |->
     IF f \in DOMAIN additionalData /\ additionalData[f] # Absent
     THEN additionalData[f] ELSE order[f]]

\* the in-memory order after a transitionTo that did not throw
transitionTo(order, newStatus, additionalData) ==
  assignFields(stampStage([order EXCEPT !.status = newStatus], newStatus),
               additionalData)

(* -------------------------- Product model ----------------------------- *)
getAvailableQuantity(p) == Max(0, p.quantity - p.reserved_quantity)

canReserve(p, amount) == getAvailableQuantity(p) >= amount

\* the in-memory product after reserve(amount) that did not throw
reserve(p, amount) ==
  [p EXCEPT !.reserved_quantity = @ + amount]

releaseReservation(p, amount) ==
  [p EXCEPT !.reserved_quantity = Max(0, @ - amount)]

\* validate: { min: 0 } of quantity and reserved_quantity, run by save()
productValid(p) == p.quantity >= 0 /\ p.reserved_quantity >= 0

\* instance.save(): the attributes changed since the instance was loaded are
\* written to the row, the others keep the row's current value
saveChanged(row, loaded, instance) ==
  [f \in DOMAIN row |-> IF instance[f] # loaded[f] THEN instance[f] ELSE row[f]]

(* ------------------------- request inputs ----------------------------- *)
Qtys == (0 - 1)..MaxQty

\* one line of items[]: the handler reads productId and qty when it reserves
\* and quantity, then qty, when it releases; quantity = 0 stands for a line
\* without that key
Items == [productId : Products, qty : Qtys, quantity : {0, 1}]

SeqsUpTo(S, n) == UNION {[1..k -> S] : k \in 1..n}

ItemLists == SeqsUpTo(Items, MaxLines)

NoProduct == [quantity |-> 0, reserved_quantity |-> 0]
NoSnap == [p \in Products |-> NoProduct]

NoOrder ==
  [id |-> 0, user_id |-> Null, idempotencyKey |-> Null, items |-> <<>>,
   paymentMethod |-> Null, status |-> Null, paymentStatus |-> Null,
   confirmedAt |-> NoDate, assignedAt |-> NoDate, pickedUpAt |-> NoDate,
   deliveredAt |-> NoDate, actualDeliveryTime |-> NoDate,
   cancelledAt |-> NoDate, cancelledBy |-> Null, cancellationReason |-> Null,
   customerRating |-> 0, assigned_courier_id |-> Null]

NoPayment ==
  [id |-> 0, orderId |-> 0, provider |-> Null, providerPaymentId |-> Null,
   status |-> Null, capturedAt |-> NoDate, refund |-> FALSE]

NoRes == [code |-> 0, error |-> Null, orderId |-> 0, status |-> Null,
          productId |-> Null]

Blank ==
  [pc |-> "idle", op |-> Null, user |-> Null, key |-> Null, items |-> <<>>,
   paymentMethod |-> Null, oid |-> 0, arg |-> Null, rating |-> 0,
   snap |-> NoSnap, order |-> NoOrder, i |-> 0, payment |-> NoPayment,
   valid |-> TRUE]

Free(r) == req[r].pc = "idle"

\* the answer sent last: the request it answers (kind, caller, client's
\* idempotency key, items, id of the path, reason or target status of the
\* body) and res.status(code).json(...); n tells two equal answers in a row
\* apart
NoAnswer ==
  [n |-> 0, op |-> Null, user |-> Null, key |-> Null, items |-> <<>>,
   oid |-> 0, arg |-> Null, valid |-> TRUE, res |-> NoRes]

\* res.status(code).json(...) ends request q of slot r
Reply(r, q, code, error, orderId, status, productId) ==
  /\ req' = [req EXCEPT ![r] = Blank]
  /\ last' = [n |-> 1 - last.n, op |-> q.op, user |-> q.user,
              key |-> IF q.key \in ClientKeys THEN q.key ELSE Null,
              items |-> q.items, oid |-> q.oid, arg |-> q.arg,
              valid |-> q.valid,
              res |-> [code |-> code, error |-> error, orderId |-> orderId,
                       status |-> status, productId |-> productId]]
  /\ UNCHANGED tasks

\* request q of slot r goes on to its next await
Goto(r, q) == req' = [req EXCEPT ![r] = q] /\ UNCHANGED <<last, tasks>>

Start(op, user) == [Blank EXCEPT !.op = op, !.user = user]

Init ==
  /\ \E s \in 1..MaxStock :
       products = [p \in Products |-> [quantity |-> s, reserved_quantity |-> 0]]
  /\ orders = <<>>
  /\ payments = <<>>
  /\ tasks = <<>>
  /\ req = [r \in Reqs |-> Blank]
  /\ last = NoAnswer

(* ------------------- POST /api/v1/orders (create) --------------------- *)
InFlightCreates == {r \in Reqs : req[r].op = "create"}

UsedKeys ==
  {orders[o].idempotencyKey : o \in 1..Len(orders)} \cup {req[r].key : r \in Reqs}

\* uuidv4(): a key no order and no request carries
HasUuid == \E n \in 1..Len(UuidPool) : UuidPool[n] \notin UsedKeys
uuidv4 ==
  UuidPool[CHOOSE n \in 1..Len(UuidPool) :
             /\ UuidPool[n] \notin UsedKeys
             /\ \A m \in 1..(n - 1) : UuidPool[m] \in UsedKeys]

\* Order.findOne({ where: { idempotencyKey } })
findByIdempotencyKey(key) ==
  {o \in 1..Len(orders) : orders[o].idempotencyKey = key}

CreateFindOne(r, user, key, items, paymentMethod) ==
  /\ Free(r)
  /\ Len(orders) + Cardinality(InFlightCreates) < MaxOrders
  /\ key = NoKey => HasUuid
  /\ LET idempotencyKey == IF key = NoKey THEN uuidv4 ELSE key
         existing == findByIdempotencyKey(idempotencyKey)
         q == [Start("create", user) EXCEPT !.key = idempotencyKey,
                 !.items = items, !.paymentMethod = paymentMethod]
     IN  IF existing # {}
         THEN LET o == CHOOSE o \in existing : TRUE
              IN  Reply(r, q, 200, Null, orders[o].id, orders[o].status, Null)
         ELSE Goto(r, [q EXCEPT !.pc = "c_store"])
  /\ UNCHANGED <<products, orders, payments>>

\* Store.findByPk(storeId): the store catalogue is an external collaborator
CreateStore(r, open) ==
  /\ req[r].pc = "c_store"
  /\ IF ~open THEN Reply(r, req[r], 400, "Store not available", 0, Null, Null)
     ELSE Goto(r, [req[r] EXCEPT !.pc = "c_load"])
  /\ UNCHANGED <<products, orders, payments>>

firstInsufficientLast(items, snap) ==
  LET bad == {i \in 1..Len(items) :
                ~canReserve(snap[items[i].productId], items[i].qty)}
  IN  IF bad = {} THEN 0 ELSE CHOOSE i \in bad : \A j \in bad : i >= j

\* the first line, in request order, that the loaded products cannot satisfy
\* (0: none)
firstInsufficient(items, snap) ==
  LET bad == {i \in 1..Len(items) :
                ~canReserve(snap[items[i].productId], items[i].qty)}
  IN  IF bad = {} THEN 0 ELSE CHOOSE i \in bad : \A j \in bad : i <= j

\* Product.findAll({ where: { id: productIds, ... } }): the rows of the
\* requested products
findProducts(items) ==
  LET found == {items[i].productId : i \in 1..Len(items)} \cap Products
  IN  [p \in Products |-> IF p \in found THEN products[p] ELSE NoProduct]

countProducts(items) ==
  Cardinality({items[i].productId : i \in 1..Len(items)} \cap Products)

\* Product.findAll, the length check and the canReserve loop
CreateLoad(r) ==
  /\ req[r].pc = "c_load"
  /\ LET q == req[r]
         snap == findProducts(q.items)
         bad == firstInsufficient(q.items, snap)
     IN  IF countProducts(q.items) # Len(q.items)
         THEN Reply(r, q, 400, "Some products are not available", 0, Null, Null)
         ELSE IF bad # 0
         THEN Reply(r, q, 400, "Insufficient stock", 0, Null, q.items[bad].productId)
         ELSE Goto(r, [q EXCEPT !.pc = "c_reserve", !.i = 1, !.snap = snap])
  /\ UNCHANGED <<products, orders, payments>>

\* one iteration of the "Apply reservations" loop: await product.reserve(qty)
CreateReserve(r) ==
  /\ req[r].pc = "c_reserve"
  /\ LET q == req[r]
         item == q.items[q.i]
         p == q.snap[item.productId]
         p2 == reserve(p, item.qty)
         next == IF q.i = Len(q.items) THEN [q EXCEPT !.pc = "c_insert", !.i = 0]
                 ELSE [q EXCEPT !.i = @ + 1]
     IN  IF ~canReserve(p, item.qty) \/ (p2 # p /\ ~productValid(p2))
         THEN /\ Reply(r, q, 500, "Failed to create order", 0, Null, Null)
              /\ UNCHANGED products
         ELSE /\ products' = [products EXCEPT ![item.productId] =
                   saveChanged(@, p, p2)]
              /\ Goto(r, [next EXCEPT !.snap[item.productId] = p2])
  /\ UNCHANGED <<orders, payments>>

newOrderAlwaysPending(id, q) ==
  [NoOrder EXCEPT !.id = id, !.user_id = q.user, !.idempotencyKey = q.key,
     !.items = q.items, !.paymentMethod = q.paymentMethod,
     !.status = "payment_pending", !.paymentStatus = "pending"]

newOrder(id, q) ==
  [NoOrder EXCEPT !.id = id, !.user_id = q.user, !.idempotencyKey = q.key,
     !.items = q.items, !.paymentMethod = q.paymentMethod,
     !.status = IF q.paymentMethod = "cash" THEN "confirmed" ELSE "payment_pending",
     !.paymentStatus = "pending"]

\* Order.create: the unique index on idempotencyKey rejects a second row
CreateInsert(r) ==
  /\ req[r].pc = "c_insert"
  /\ LET q == req[r]
         order == newOrder(Len(orders) + 1, q)
     IN  IF findByIdempotencyKey(q.key) # {}
         THEN /\ Reply(r, q, 500, "Failed to create order", 0, Null, Null)
              /\ UNCHANGED orders
         ELSE /\ orders' = Append(orders, order)
              /\ Reply(r, q, 201, Null, order.id, order.status, Null)
  /\ UNCHANGED <<products, payments>>

(* --------------- POST /api/v1/orders/:orderId/cancel ------------------ *)
\* the statuses the cancel handler accepts
CancellableStatuses == {"created", "payment_pending", "confirmed", "assigning"}

\* item.quantity || item.qty || 0
releaseAmount(item) ==
  IF item.quantity # 0 THEN item.quantity
  ELSE IF item.qty # 0 THEN item.qty ELSE 0

CancelFindNoOwnerCheck(r, user, orderId, reason) ==
  /\ Free(r)
  /\ LET q == [Start("cancel", user) EXCEPT !.oid = orderId, !.arg = reason]
     IN  IF orderId > Len(orders)
         THEN Reply(r, q, 404, "Order not found", 0, Null, Null)
         ELSE IF orders[orderId].status \notin CancellableStatuses
         THEN Reply(r, q, 400, "Order cannot be cancelled", 0, Null, Null)
         ELSE Goto(r, [q EXCEPT !.pc = "x_save", !.order = orders[orderId]])
  /\ UNCHANGED <<products, orders, payments>>

\* Order.findByPk, the ownership check and the status check
CancelFind(r, user, orderId, reason) ==
  /\ Free(r)
  /\ LET q == [Start("cancel", user) EXCEPT !.oid = orderId, !.arg = reason]
     IN  IF orderId > Len(orders) \/ orders[orderId].user_id # user
         THEN Reply(r, q, 404, "Order not found", 0, Null, Null)
         ELSE IF orders[orderId].status \notin CancellableStatuses
         THEN Reply(r, q, 400, "Order cannot be cancelled", 0, Null, Null)
         ELSE Goto(r, [q EXCEPT !.pc = "x_save", !.order = orders[orderId]])
  /\ UNCHANGED <<products, orders, payments>>

\* order.status = 'cancelled'; ...; await order.save()
CancelSave(r) ==
  /\ req[r].pc = "x_save"
  /\ LET q == req[r]
         instance == [q.order EXCEPT !.status = "cancelled", !.cancelledAt = Now,
                        !.cancelledBy = "customer", !.cancellationReason = q.arg]
     IN  /\ orders' = [orders EXCEPT ![q.oid] = saveChanged(@, q.order, instance)]
         /\ Goto(r, [q EXCEPT !.pc = "x_load", !.i = 1, !.order = instance])
  /\ UNCHANGED <<products, payments>>

\* one iteration of the release loop, first half: await Product.findByPk
CancelLoadProduct(r) ==
  /\ req[r].pc = "x_load"
  /\ LET q == req[r]
         pid == q.order.items[q.i].productId
     IN  Goto(r, [q EXCEPT !.pc = "x_release", !.snap[pid] = products[pid]])
  /\ UNCHANGED <<products, orders, payments>>

\* second half: await product.releaseReservation(...)
CancelRelease(r) ==
  /\ req[r].pc = "x_release"
  /\ LET q == req[r]
         item == q.order.items[q.i]
         p == q.snap[item.productId]
         p2 == releaseReservation(p, releaseAmount(item))
     IN  /\ products' = [products EXCEPT ![item.productId] = saveChanged(@, p, p2)]
         /\ IF q.i = Len(q.order.items)
            THEN Reply(r, q, 200, Null, q.oid, Null, Null)
            ELSE Goto(r, [q EXCEPT !.pc = "x_load", !.i = @ + 1, !.snap = NoSnap])
  /\ UNCHANGED <<orders, payments>>

\* an awaited query of the release loop rejects (the database is
\* unreachable, the process is stopped): the catch block answers 500
CancelFail(r) ==
  /\ req[r].pc \in {"x_load", "x_release"}
  /\ Reply(r, req[r], 500, "Failed to cancel order", 0, Null, Null)
  /\ UNCHANGED <<products, orders, payments>>

(* ----------------- Order.prototype.transitionTo ----------------------- *)
\* additionalData of transitionTo: the keys a caller may pass
Payloads == [status : {Absent} \cup OrderStatuses,
             cancellationReason : {Absent, "changed my mind"}]

\* A call of order.transitionTo(newStatus, additionalData) on an instance
\* that is as fresh as it can be: the row is read, checked and saved in one
\* step, so no other request comes between the read and the save.
TransitionCall(r, orderId, newStatus, additionalData) ==
  /\ Free(r)
  /\ orderId \in 1..Len(orders)
  /\ LET order == orders[orderId]
         q == [Start("transition", Null) EXCEPT !.oid = orderId, !.arg = newStatus]
     IN  IF ~canTransitionTo(order, newStatus)
         THEN /\ Reply(r, q, 500, "Invalid status transition", orderId, Null, Null)
              /\ UNCHANGED orders
         ELSE /\ orders' = [orders EXCEPT ![orderId] =
                   saveChanged(@, order, transitionTo(order, newStatus, additionalData))]
              /\ Reply(r, q, 200, Null, orderId, Null, Null)
  /\ UNCHANGED <<products, payments>>

(* ---------------- POST /api/v1/orders/:orderId/rate ------------------- *)
MinRating == 1
MaxRating == 5

RateFind(r, user, orderId, rating) ==
  /\ Free(r)
  /\ LET q == [Start("rate", user) EXCEPT !.oid = orderId, !.rating = rating]
     IN  IF orderId > Len(orders) \/ orders[orderId].user_id # user
         THEN Reply(r, q, 404, "Order not found", 0, Null, Null)
         ELSE IF orders[orderId].status \notin {"delivered", "completed"}
         THEN Reply(r, q, 400, "Order must be delivered to rate", 0, Null, Null)
         ELSE Goto(r, [q EXCEPT !.pc = "r_save", !.order = orders[orderId]])
  /\ UNCHANGED <<products, orders, payments>>

RateSave(r) ==
  /\ req[r].pc = "r_save"
  /\ LET q == req[r]
         instance == [q.order EXCEPT !.customerRating = q.rating]
     IN  /\ orders' = [orders EXCEPT ![q.oid] = saveChanged(@, q.order, instance)]
         /\ Reply(r, q, 200, Null, q.oid, Null, Null)
  /\ UNCHANGED <<products, payments>>

(* ------------------------- payments routes ---------------------------- *)
Providers == {"click", "payme", "uzum", "stripe"}
TransactionIds == {"t1", "t2"}

InFlightPayments == {r \in Reqs : req[r].pc = "p_insert"}

PayFindNoPaidCheck(r, user, orderId, provider) ==
  /\ Free(r)
  /\ Len(payments) + Cardinality({r2 \in Reqs : req[r2].pc = "p_insert"}) < MaxPayments
  /\ LET q == [Start("pay", user) EXCEPT !.oid = orderId, !.arg = provider]
     IN  IF orderId > Len(orders) \/ orders[orderId].user_id # user
         THEN Reply(r, q, 404, "Order not found", 0, Null, Null)
         ELSE Goto(r, [q EXCEPT !.pc = "p_insert"])
  /\ UNCHANGED <<products, orders, payments>>

\* POST /payments/create: Order.findOne of the caller's order, the paid check
PayFind(r, user, orderId, provider) ==
  /\ Free(r)
  /\ Len(payments) + Cardinality(InFlightPayments) < MaxPayments
  /\ LET q == [Start("pay", user) EXCEPT !.oid = orderId, !.arg = provider]
     IN  IF orderId > Len(orders) \/ orders[orderId].user_id # user
         THEN Reply(r, q, 404, "Order not found", 0, Null, Null)
         ELSE IF orders[orderId].paymentStatus = "paid"
         THEN Reply(r, q, 400, "Order already paid", 0, Null, Null)
         ELSE Goto(r, [q EXCEPT !.pc = "p_insert"])
  /\ UNCHANGED <<products, orders, payments>>

\* Payment.create({ ..., status: 'pending' })
PayInsert(r) ==
  /\ req[r].pc = "p_insert"
  /\ LET q == req[r]
         payment == [NoPayment EXCEPT !.id = Len(payments) + 1, !.orderId = q.oid,
                       !.provider = q.arg, !.providerPaymentId = "generated",
                       !.status = "pending"]
     IN  /\ payments' = Append(payments, payment)
         /\ Reply(r, q, 200, Null, q.oid, Null, Null)
  /\ UNCHANGED <<products, orders>>

WebhookFindNoNullCheck(r, paymentId, success, transactionId, valid) ==
  /\ Free(r)
  /\ LET q == [Start("webhook", Null) EXCEPT !.oid = paymentId, !.valid = valid,
                 !.arg = IF success THEN "captured" ELSE "failed",
                 !.key = transactionId]
     IN  IF paymentId = 0 THEN Reply(r, q, 200, Null, 0, Null, Null)
         ELSE IF paymentId > Len(payments)
         THEN Reply(r, q, 500, "Webhook processing failed", 0, Null, Null)
         ELSE Goto(r, [q EXCEPT !.pc = IF success THEN "w_order" ELSE "w_save",
                                !.payment = payments[paymentId]])
  /\ UNCHANGED <<products, orders, payments>>

\* POST /payments/webhook/:provider: the switch that reads the payload, then
\* Payment.findByPk; paymentId 0 stands for a payload without an identifier.
\* valid tells whether the request carries the provider's signature: the
\* handler does not read it (the verification is commented out).
WebhookFind(r, paymentId, success, transactionId, valid) ==
  /\ Free(r)
  /\ LET q == [Start("webhook", Null) EXCEPT !.oid = paymentId, !.valid = valid,
                 !.arg = IF success THEN "captured" ELSE "failed",
                 !.key = transactionId]
     IN  IF paymentId = 0 \/ paymentId > Len(payments)
         THEN Reply(r, q, 200, Null, 0, Null, Null)
         ELSE Goto(r, [q EXCEPT !.pc = IF success THEN "w_order" ELSE "w_save",
                                !.payment = payments[paymentId]])
  /\ UNCHANGED <<products, orders, payments>>

WebhookOrderUpdateSkipped(r) ==
  /\ req[r].pc = "w_order"
  /\ Goto(r, [req[r] EXCEPT !.pc = "w_save"])
  /\ UNCHANGED <<products, orders, payments>>

\* Order.update({ paymentStatus: 'paid' }, { where: { id: payment.orderId } })
WebhookOrderUpdate(r) ==
  /\ req[r].pc = "w_order"
  /\ orders' = [o \in 1..Len(orders) |->
                  IF orders[o].id = req[r].payment.orderId
                  THEN [orders[o] EXCEPT !.paymentStatus = "paid"]
                  ELSE orders[o]]
  /\ Goto(r, [req[r] EXCEPT !.pc = "w_save"])
  /\ UNCHANGED <<products, payments>>

\* payment.status = status; payment.providerPaymentId = transactionId;
\* payment.capturedAt = new Date() for a capture; payment.save()
WebhookSave(r) ==
  /\ req[r].pc = "w_save"
  /\ LET q == req[r]
         instance == [q.payment EXCEPT !.status = q.arg,
                        !.providerPaymentId = q.key,
                        !.capturedAt = IF q.arg = "captured" THEN Now ELSE @]
     IN  /\ payments' = [payments EXCEPT ![q.oid] = saveChanged(@, q.payment, instance)]
         /\ Reply(r, q, 200, Null, 0, Null, Null)
  /\ UNCHANGED <<products, orders>>

\* POST /payments/refund: Payment.findOne of a payment of the caller's order
RefundFind(r, user, paymentId) ==
  /\ Free(r)
  /\ LET q == [Start("refund", user) EXCEPT !.oid = paymentId]
         found == /\ paymentId \in 1..Len(payments)
                  /\ payments[paymentId].orderId \in 1..Len(orders)
                  /\ orders[payments[paymentId].orderId].user_id = user
     IN  IF ~found THEN Reply(r, q, 404, "Payment not found", 0, Null, Null)
         ELSE IF payments[paymentId].status # "captured"
         THEN Reply(r, q, 400, "Payment cannot be refunded", 0, Null, Null)
         ELSE Goto(r, [q EXCEPT !.pc = "f_save", !.payment = payments[paymentId]])
  /\ UNCHANGED <<products, orders, payments>>

\* payment.status = 'refunded'; payment.metadata = {...}; payment.save()
RefundSave(r) ==
  /\ req[r].pc = "f_save"
  /\ LET q == req[r]
         instance == [q.payment EXCEPT !.status = "refunded", !.refund = TRUE]
     IN  /\ payments' = [payments EXCEPT ![q.oid] = saveChanged(@, q.payment, instance)]
         /\ Reply(r, q, 200, Null, 0, Null, Null)
  /\ UNCHANGED <<products, orders>>

(* --------------------------- specifications --------------------------- *)
Line(p, qty, quantity) == [productId |-> p, qty |-> qty, quantity |-> quantity]

\* one line of quantity 1 on product p1, and one that asks for the largest
\* quantity
OneLine == <<Line("p1", 1, 0)>>

FullLine == <<Line("p1", MaxQty, 0)>>

\* single lines on one product: every qty, with and without a quantity key
StockLists == {<<Line("p1", n, k)>> : n \in Qtys, k \in {0, 1}}

\* create and cancel requests of one customer on one product
NextStock ==
  \E r \in Reqs :
    \/ \E items \in StockLists : CreateFindOne(r, "u1", NoKey, items, "cash")
    \/ \E open \in BOOLEAN : CreateStore(r, open)
    \/ CreateLoad(r)
    \/ CreateReserve(r)
    \/ CreateInsert(r)
    \/ \E orderId \in 1..MaxOrders : CancelFind(r, "u1", orderId, Null)
    \/ CancelSave(r)
    \/ CancelLoadProduct(r)
    \/ CancelRelease(r)

SpecStock == Init /\ [][NextStock]_vars

\* concurrent create requests on one product, with a client's idempotency
\* key or without one
CreateLists == {<<Line("p1", n, 0)>> : n \in 1..MaxQty}

NextCreate ==
  \E r \in Reqs :
    \/ \E key \in {"k1", NoKey}, items \in CreateLists, pm \in PaymentMethods :
         CreateFindOne(r, "u1", key, items, pm)
    \/ \E open \in BOOLEAN : CreateStore(r, open)
    \/ CreateLoad(r)
    \/ CreateReserve(r)
    \/ CreateInsert(r)

SpecCreate == Init /\ [][NextCreate]_vars

\* no payload, a cancellation reason, and the two statuses that only a
\* payload can set
FsmPayloads ==
  {d \in Payloads :
     /\ d.status \in {Absent, "created", "refunded"}
     /\ d.status = Absent \/ d.cancellationReason = Absent}

\* one order driven through the state machine by transitionTo calls with
\* every target status, one call at a time
NextFsm ==
  \/ \E pm \in PaymentMethods :
       orders = <<>> /\ CreateFindOne(1, "u1", NoKey, OneLine, pm)
  \/ CreateStore(1, TRUE)
  \/ CreateLoad(1)
  \/ CreateReserve(1)
  \/ CreateInsert(1)
  \/ \E newStatus \in OrderStatuses, additionalData \in FsmPayloads :
       TransitionCall(1, 1, newStatus, additionalData)

SpecFsm == Init /\ [][NextFsm]_vars

NoPayload == [status |-> Absent, cancellationReason |-> Absent]

\* one order of customer u1 under concurrent cancel and rate requests and
\* transitionTo calls without payload
NextLife ==
  \E r \in Reqs :
    \/ \E pm \in {"cash", "card"} :
         orders = <<>> /\ CreateFindOne(r, "u1", NoKey, OneLine, pm)
    \/ CreateStore(r, TRUE)
    \/ CreateLoad(r)
    \/ CreateReserve(r)
    \/ CreateInsert(r)
    \/ \E user \in Users : CancelFind(r, user, 1, "changed my mind")
    \/ CancelSave(r)
    \/ CancelLoadProduct(r)
    \/ CancelRelease(r)
    \/ \E newStatus \in OrderStatuses : TransitionCall(r, 1, newStatus, NoPayload)
    \/ RateFind(r, "u1", 1, MaxRating)
    \/ RateSave(r)

SpecLife == Init /\ [][NextLife]_vars

\* create and cancel requests of one customer on one product, one request
\* at a time; the lines carry a valid qty, with and without a quantity key
SeqLists == {<<Line("p1", n, k)>> : n \in 1..MaxQty, k \in {0, 1}}

NextSeq ==
  \E r \in Reqs :
    \/ \E items \in SeqLists :
         /\ \A r2 \in Reqs : Free(r2)
         /\ CreateFindOne(r, "u1", NoKey, items, "cash")
    \/ CreateStore(r, TRUE)
    \/ CreateLoad(r)
    \/ CreateReserve(r)
    \/ CreateInsert(r)
    \/ \E orderId \in 1..MaxOrders :
         /\ \A r2 \in Reqs : Free(r2)
         /\ CancelFind(r, "u1", orderId, Null)
    \/ CancelSave(r)
    \/ CancelLoadProduct(r)
    \/ CancelRelease(r)

SpecSeq == Init /\ [][NextSeq]_vars

\* lists of up to MaxLines lines over both products, each with a valid qty;
\* the products start alike, so the first line is on p1
LinesLists ==
  {l \in ItemLists :
     /\ l[1].productId = "p1"
     /\ \A i \in 1..Len(l) : l[i].qty \in 1..MaxQty /\ l[i].quantity = 0}

\* concurrent create requests with lists of several lines, and requests
\* that carry a client's idempotency key
NextLines ==
  \E r \in Reqs :
    \/ \E items \in LinesLists :
         CreateFindOne(r, "u1", NoKey, items, "cash")
    \/ CreateFindOne(r, "u1", "k1", FullLine, "cash")
    \/ \E open \in BOOLEAN : CreateStore(r, open)
    \/ CreateLoad(r)
    \/ CreateReserve(r)
    \/ CreateInsert(r)

SpecLines == Init /\ [][NextLines]_vars

\* lists of one line on p1 or of a line on p1 and a line on p2, with every
\* qty a client can send
RollbackLists ==
  {<<Line("p1", n, 0)>> : n \in Qtys}
    \cup {<<Line("p1", n, 0), Line("p2", m, 0)>> : n \in Qtys, m \in Qtys}

\* create requests of one customer, one request at a time
NextRollback ==
  \E r \in Reqs :
    \/ \E items \in RollbackLists :
         /\ \A r2 \in Reqs : Free(r2)
         /\ CreateFindOne(r, "u1", NoKey, items, "cash")
    \/ \E open \in BOOLEAN : CreateStore(r, open)
    \/ CreateLoad(r)
    \/ CreateReserve(r)
    \/ CreateInsert(r)

SpecRollback == Init /\ [][NextRollback]_vars

\* one order on p1 and the cancel requests of its customer, where a query of
\* the release loop may fail
NextCancel ==
  \E r \in Reqs :
    \/ \E items \in CreateLists :
         /\ orders = <<>> /\ InFlightCreates = {}
         /\ CreateFindOne(r, "u1", NoKey, items, "cash")
    \/ CreateStore(r, TRUE)
    \/ CreateLoad(r)
    \/ CreateReserve(r)
    \/ CreateInsert(r)
    \/ CancelFind(r, "u1", 1, Null)
    \/ CancelSave(r)
    \/ CancelLoadProduct(r)
    \/ CancelRelease(r)
    \/ CancelFail(r)

\* every request that is at an await goes on: the event loop resumes it
CancelFairness ==
  \A r \in Reqs :
    /\ WF_vars(CancelSave(r))
    /\ WF_vars(CancelLoadProduct(r) \/ CancelFail(r))
    /\ WF_vars(CancelRelease(r) \/ CancelFail(r))

SpecCancel == Init /\ [][NextCancel]_vars /\ CancelFairness

\* one card order of customer u1, its payment initiations, the provider's
\* signed webhooks (for a stored payment or for none) and refunds
NextPay ==
  \E r \in Reqs :
    \/ /\ orders = <<>> /\ InFlightCreates = {}
       /\ CreateFindOne(r, "u1", NoKey, OneLine, "card")
    \/ CreateStore(r, TRUE)
    \/ CreateLoad(r)
    \/ CreateReserve(r)
    \/ CreateInsert(r)
    \/ PayFind(r, "u1", 1, "click")
    \/ PayInsert(r)
    \/ \E paymentId \in 0..MaxPayments, success \in BOOLEAN :
         WebhookFind(r, paymentId, success, "t1", TRUE)
    \/ WebhookOrderUpdate(r)
    \/ WebhookSave(r)
    \/ \E paymentId \in 1..MaxPayments : RefundFind(r, "u1", paymentId)
    \/ RefundSave(r)

SpecPay == Init /\ [][NextPay]_vars

\* one card order with one payment, and webhooks with and without a valid
\* signature
NextSig ==
  \E r \in Reqs :
    \/ /\ orders = <<>> /\ InFlightCreates = {}
       /\ CreateFindOne(r, "u1", NoKey, OneLine, "card")
    \/ CreateStore(r, TRUE)
    \/ CreateLoad(r)
    \/ CreateReserve(r)
    \/ CreateInsert(r)
    \/ /\ payments = <<>> /\ InFlightPayments = {}
       /\ PayFind(r, "u1", 1, "click")
    \/ PayInsert(r)
    \/ \E paymentId \in 0..1, success \in BOOLEAN,
          transactionId \in TransactionIds, valid \in BOOLEAN :
         WebhookFind(r, paymentId, success, transactionId, valid)
    \/ WebhookOrderUpdate(r)
    \/ WebhookSave(r)

SpecSig == Init /\ [][NextSig]_vars

\* one card order with one payment, the customer's cancel requests and the
\* provider's webhooks
NextPayCancel ==
  \E r \in Reqs :
    \/ /\ orders = <<>> /\ InFlightCreates = {}
       /\ CreateFindOne(r, "u1", NoKey, OneLine, "card")
    \/ CreateStore(r, TRUE)
    \/ CreateLoad(r)
    \/ CreateReserve(r)
    \/ CreateInsert(r)
    \/ /\ payments = <<>> /\ InFlightPayments = {}
       /\ PayFind(r, "u1", 1, "click")
    \/ PayInsert(r)
    \/ \E success \in BOOLEAN : WebhookFind(r, 1, success, "t1", TRUE)
    \/ WebhookOrderUpdate(r)
    \/ WebhookSave(r)
    \/ CancelFind(r, "u1", 1, Null)
    \/ CancelSave(r)
    \/ CancelLoadProduct(r)
    \/ CancelRelease(r)

SpecPayCancel == Init /\ [][NextPayCancel]_vars

\* create and cancel requests of one customer on one product, one request
\* at a time, with every qty a client can send
ReleaseLists == {<<Line("p1", n, 0)>> : n \in Qtys}

NextRelease ==
  \E r \in Reqs :
    \/ \E items \in ReleaseLists :
         /\ \A r2 \in Reqs : Free(r2)
         /\ CreateFindOne(r, "u1", NoKey, items, "cash")
    \/ CreateStore(r, TRUE)
    \/ CreateLoad(r)
    \/ CreateReserve(r)
    \/ CreateInsert(r)
    \/ \E orderId \in 1..MaxOrders :
         /\ \A r2 \in Reqs : Free(r2)
         /\ CancelFind(r, "u1", orderId, Null)
    \/ CancelSave(r)
    \/ CancelLoadProduct(r)
    \/ CancelRelease(r)

SpecRelease == Init /\ [][NextRelease]_vars

\* orders of one customer on one product with valid quantities, created one
\* at a time while nothing else runs, and cancel requests that run
\* concurrently with each other and never with a create
NextDoubleCancel ==
  \E r \in Reqs :
    \/ \E items \in CreateLists :
         /\ \A r2 \in Reqs : Free(r2)
         /\ CreateFindOne(r, "u1", NoKey, items, "cash")
    \/ CreateStore(r, TRUE)
    \/ CreateLoad(r)
    \/ CreateReserve(r)
    \/ CreateInsert(r)
    \/ \E orderId \in 1..MaxOrders :
         /\ InFlightCreates = {}
         /\ CancelFind(r, "u1", orderId, Null)
    \/ CancelSave(r)
    \/ CancelLoadProduct(r)
    \/ CancelRelease(r)

SpecDoubleCancel == Init /\ [][NextDoubleCancel]_vars

\* create and cancel requests of one customer on one product with valid
\* quantities, all of them concurrent
NextOverlap ==
  \E r \in Reqs :
    \/ \E items \in CreateLists : CreateFindOne(r, "u1", NoKey, items, "cash")
    \/ CreateStore(r, TRUE)
    \/ CreateLoad(r)
    \/ CreateReserve(r)
    \/ CreateInsert(r)
    \/ \E orderId \in 1..MaxOrders : CancelFind(r, "u1", orderId, Null)
    \/ CancelSave(r)
    \/ CancelLoadProduct(r)
    \/ CancelRelease(r)

SpecOverlap == Init /\ [][NextOverlap]_vars

\* create requests of two customers with the same client idempotency key
NextSharedKey ==
  \E r \in Reqs :
    \/ \E user \in Users, items \in CreateLists, pm \in PaymentMethods :
         CreateFindOne(r, user, "k1", items, pm)
    \/ CreateStore(r, TRUE)
    \/ CreateLoad(r)
    \/ CreateReserve(r)
    \/ CreateInsert(r)

SpecSharedKey == Init /\ [][NextSharedKey]_vars

RECURSIVE SumQty(_, _)
\* the quantity the lines of items ask of product p
SumQty(items, p) ==
  IF items = <<>> THEN 0
  ELSE (IF Head(items).productId = p THEN Head(items).qty ELSE 0)
       + SumQty(Tail(items), p)

RECURSIVE HeldFrom(_, _)
\* the quantity of product p in the lines of the orders n.. that are not
\* cancelled
HeldFrom(n, p) ==
  IF n > Len(orders) THEN 0
  ELSE (IF orders[n].status = "cancelled" THEN 0 ELSE SumQty(orders[n].items, p))
       + HeldFrom(n + 1, p)

Held(p) == HeldFrom(1, p)

AllFree == \A r \in Reqs : Free(r)

\* this step answers a request of kind op
Answered(op) == last' # last /\ last'.op = op

\* the request answered by this step was at one of the places pcs
AnsweredFrom(pcs) ==
  \E r \in Reqs : req[r].pc \in pcs /\ req'[r] = Blank
                   /\ \A r2 \in Reqs \ {r} : req'[r2] = req[r2]

\* C2: for concurrent create-order requests against one product with stock
\* S, the total quantity held by the orders that were created never exceeds
\* S.
C2_NoOverselling ==
  \A p \in Products : Held(p) <= products[p].quantity

\* C3: two create-order requests with the same idempotency key answer with
\* the same order id: a request that finds an order with its key when it
\* starts, or that reaches the insert when another request has created the
\* order with its key, answers with success and that order's id.
C3_SameKeySameOrder ==
  [][LET winner == findByIdempotencyKey(last'.key)
     IN  (/\ Answered("create")
          /\ AnsweredFrom({"idle", "c_insert"})
          /\ last'.key \in ClientKeys
          /\ winner # {})
         => /\ last'.res.code \in {200, 201}
            /\ \A o \in winner : last'.res.orderId = orders[o].id]_vars

\* C4: create-order requests with the same idempotency key reserve stock at
\* most once: when all of them have finished, no product has more reserved
\* than the lines of the created orders ask for.
C4_ReservedAtMostOnce ==
  AllFree => \A p \in Products : products[p].reserved_quantity <= Held(p)

\* the transition table of the order state machine, as pairs
NonTerminalStatuses ==
  {"created", "payment_pending", "confirmed", "assigning", "courier_assigned",
   "en_route_to_store", "at_store", "picking", "en_route_to_customer", "delivered"}

TerminalStatuses == {"completed", "cancelled", "refunded"}

TransitionTable ==
  {<<"created", "payment_pending">>, <<"payment_pending", "confirmed">>,
   <<"confirmed", "assigning">>, <<"assigning", "courier_assigned">>,
   <<"courier_assigned", "en_route_to_store">>, <<"en_route_to_store", "at_store">>,
   <<"at_store", "picking">>, <<"picking", "en_route_to_customer">>,
   <<"en_route_to_customer", "delivered">>, <<"delivered", "completed">>}
  \cup {<<s, "cancelled">> : s \in NonTerminalStatuses}

\* C5: for every pair (from, to) of the 13 statuses, transitionTo(to) on an
\* order in status from succeeds exactly when (from, to) is in the
\* transition table; otherwise it fails with an invalid-transition error and
\* changes no field of the order; the terminal statuses have no target.
C5_TransitionTable ==
  [][Answered("transition") =>
       LET from == orders[last'.oid].status
           to == last'.arg
       IN  /\ from \in TerminalStatuses => <<from, to>> \notin TransitionTable
           /\ IF <<from, to>> \in TransitionTable
              THEN last'.res.code = 200
              ELSE /\ last'.res.code = 500
                   /\ last'.res.error = "Invalid status transition"
                   /\ orders' = orders]_vars

\* a transitionTo(cancelled) has just been refused on an order that went
\* through the table to completed
C5_Witness ==
  /\ last.op = "transition" /\ last.arg = "cancelled"
  /\ last.res.code = 500
  /\ orders[last.oid].status = "completed"
  /\ orders[last.oid].deliveredAt = Now

\* C6: once an order's status is completed, cancelled or refunded, no later
\* operation changes it, in any interleaving with requests that read the
\* order earlier.
C6_TerminalImmutable ==
  [][\A o \in 1..Len(orders) :
       orders[o].status \in TerminalStatuses
         => orders'[o].status = orders[o].status]_vars

\* C7: every change of an order's persisted status is an edge of the
\* transition table.
C7_StatusMovesAlongTable ==
  [][\A o \in 1..Len(orders) :
       orders'[o].status # orders[o].status
         => <<orders[o].status, orders'[o].status>> \in TransitionTable]_vars

\* C8: a cancel request of the order's customer succeeds in each of the ten
\* non-terminal statuses and is rejected as not cancellable only in
\* completed, cancelled or refunded; a rejected cancel changes no order field
\* and no stock.
C8_CancelInEveryNonTerminalStatus ==
  [][(/\ Answered("cancel")
      /\ AnsweredFrom({"idle"})
      /\ last'.oid \in 1..Len(orders)
      /\ orders[last'.oid].user_id = last'.user)
     => /\ last'.res.code = 400
        /\ orders[last'.oid].status \in TerminalStatuses
        /\ orders' = orders /\ products' = products]_vars

\* C9: creating an order raises each product's reserved quantity by exactly
\* the quantity of its lines and a successful cancel of the order lowers it
\* by exactly that quantity again, leaving the reservations of the other
\* orders alone: between two requests every product's reserved quantity is
\* the sum of the line quantities of the orders that are not cancelled.
C9_CancelReleasesWhatCreateReserved ==
  AllFree => \A p \in Products : products[p].reserved_quantity = Held(p)

\* the lines of items that ask for more than the product's available
\* quantity
ShortLines(items) ==
  {i \in 1..Len(items) :
     items[i].qty > Max(0, products[items[i].productId].quantity
                            - products[items[i].productId].reserved_quantity)}

FirstShort(items) ==
  CHOOSE i \in ShortLines(items) : \A j \in ShortLines(items) : i <= j

\* the answer of this step refuses the create request for the first short
\* line and the step writes nothing
RefusedForFirstShortLine ==
  /\ last'.res.code = 400
  /\ last'.res.error = "Insufficient stock"
  /\ last'.res.productId = last'.items[FirstShort(last'.items)].productId
  /\ products' = products
  /\ orders' = orders

C11_FailedCreateReservesNothing ==
  (AllFree /\ last.op = "create" /\ last.res.code >= 400)
    => \A p \in Products : products[p].reserved_quantity = Held(p)

\* C12: whenever an order's status becomes cancelled, the reservation of
\* its lines is eventually released, also when the cancel request fails
\* between saving the status and releasing the stock: the one order on p1
\* being cancelled leads to p1 having nothing reserved.
C12_CancelledOrderIsReleased ==
  (orders # <<>> /\ orders[1].status = "cancelled")
    ~> (products["p1"].reserved_quantity = 0)

\* C13: when a webhook reports a successful settlement for a pending payment
\* whose order is in status payment_pending, then after the webhook is
\* processed the payment is captured, the order's payment status is paid and
\* the order's status is confirmed.
C13_CaptureConfirmsOrder ==
  [][\A i \in 1..Len(payments) :
       (/\ payments[i].status = "pending"
        /\ payments'[i].status = "captured"
        /\ orders[payments[i].orderId].status = "payment_pending")
       => /\ orders'[payments[i].orderId].paymentStatus = "paid"
          /\ orders'[payments[i].orderId].status = "confirmed"]_vars

\* C14: a webhook whose provider transaction id was already processed
\* changes no payment and no order, at whatever later point it is delivered:
\* once a capture with a transaction id has been stored on the payment, no
\* step of a webhook that reports the capture with that id again writes
\* anything.
C14_ReplayedWebhookChangesNothing ==
  [][\A r \in Reqs :
       (/\ req[r].pc \in {"w_order", "w_save"}
        /\ req'[r] # req[r]
        /\ req[r].arg = "captured"
        /\ payments[req[r].oid].capturedAt = Now
        /\ payments[req[r].oid].providerPaymentId = req[r].key)
       => payments' = payments /\ orders' = orders]_vars

\* C15: a webhook that reports a capture for a payment whose order is
\* cancelled, or in another terminal status, changes no field of the order.
C15_CaptureLeavesTerminalOrder ==
  [][\A r \in Reqs :
       (/\ req[r].pc \in {"w_order", "w_save"}
        /\ req'[r] # req[r]
        /\ req[r].arg = "captured"
        /\ orders[req[r].payment.orderId].status \in TerminalStatuses)
       => orders' = orders]_vars

\* C16: a webhook whose signature is invalid is rejected before
\* reconciliation: it is not answered with success and none of its steps
\* changes a payment or an order.
C16_UnsignedWebhookRejected ==
  [][/\ (Answered("webhook") /\ ~last'.valid) => last'.res.code # 200
     /\ \A r \in Reqs :
          (req[r].pc \in {"w_order", "w_save"} /\ req'[r] # req[r] /\ ~req[r].valid)
          => payments' = payments /\ orders' = orders]_vars

\* the payment identifier of a webhook matches no stored payment
UnknownPayment(paymentId) == paymentId \notin 1..Len(payments)

\* C17: a webhook whose payment identifier matches no stored payment is
\* answered with success at once and changes no payment and no order.
C17_UnknownPaymentAcknowledged ==
  [][/\ \A r \in Reqs :
          (req[r].pc = "idle" /\ req'[r].op = "webhook")
          => ~UnknownPayment(req'[r].oid)
     /\ (Answered("webhook") /\ UnknownPayment(last'.oid))
          => /\ last'.res.code = 200
             /\ payments' = payments /\ orders' = orders
             /\ products' = products]_vars

\* a webhook for payment 2 has just been acknowledged while payment 1 is the
\* only payment
C17_Witness ==
  /\ last.op = "webhook" /\ last.oid = 2 /\ last.res.code = 200
  /\ Len(payments) = 1

\* C18: a payment initiation for an order whose payment status is paid is
\* rejected and creates no payment; for any other order of the caller it goes
\* on to create exactly one payment, in status pending, and no step of it
\* changes the order.
C18_InitiationChecksPaid ==
  [][\A r \in Reqs :
       /\ (req[r].pc = "idle" /\ req'[r].op = "pay")
            => /\ orders[req'[r].oid].paymentStatus # "paid"
               /\ UNCHANGED <<orders, payments>>
       /\ (Answered("pay") /\ AnsweredFrom({"idle"}) /\ last'.oid \in 1..Len(orders)
              /\ orders[last'.oid].user_id = last'.user)
            => /\ orders[last'.oid].paymentStatus = "paid"
               /\ last'.res.code = 400
               /\ UNCHANGED <<orders, payments>>
       /\ (req[r].pc = "p_insert" /\ req'[r] # req[r])
            => /\ Len(payments') = Len(payments) + 1
               /\ SubSeq(payments', 1, Len(payments)) = payments
               /\ payments'[Len(payments')].status = "pending"
               /\ payments'[Len(payments')].orderId = req[r].oid
               /\ orders' = orders]_vars

\* a second initiation has just been rejected because a capture of the
\* first payment made the order paid
C18_Witness ==
  /\ last.op = "pay" /\ last.res.code = 400
  /\ Len(payments) = 1 /\ payments[1].status = "captured"
  /\ orders[1].paymentStatus = "paid"

\* C19: every order has at most one payment in a capturable status (pending
\* or authorized).
C19_OneCapturablePayment ==
  \A o \in 1..Len(orders) :
    Cardinality({i \in 1..Len(payments) :
                   /\ payments[i].orderId = orders[o].id
                   /\ payments[i].status \in {"pending", "authorized"}}) <= 1

\* C20: every payment whose status is captured belongs to an order whose
\* payment status is paid.
C20_CapturedMeansPaid ==
  \A i \in 1..Len(payments) :
    payments[i].status = "captured"
      => \E o \in 1..Len(orders) :
           orders[o].id = payments[i].orderId /\ orders[o].paymentStatus = "paid"

\* a captured payment next to a refunded one, while a webhook is about to
\* save
C20_Witness ==
  /\ Len(payments) = 2
  /\ payments[1].status = "captured" /\ payments[2].status = "refunded"
  /\ \E r \in Reqs : req[r].pc = "w_save"

\* C21: a newly created order starts in status confirmed when its payment
\* method is cash and in status payment_pending when it is card or wallet;
\* no order is created in any other status.
C21_InitialStatusByPaymentMethod ==
  [][Len(orders') > Len(orders) =>
       /\ Len(orders') = Len(orders) + 1
       /\ LET order == orders'[Len(orders')]
          IN  /\ order.paymentMethod \in PaymentMethods
              /\ order.status = IF order.paymentMethod = "cash"
                                THEN "confirmed" ELSE "payment_pending"]_vars

\* a cash order and a wallet order have been created
C21_Witness ==
  /\ Len(orders) = 2
  /\ orders[1].paymentMethod = "cash" /\ orders[1].status = "confirmed"
  /\ orders[2].paymentMethod = "wallet" /\ orders[2].status = "payment_pending"

DeliveryPhases ==
  {"courier_assigned", "en_route_to_store", "at_store", "picking",
   "en_route_to_customer", "delivered"}

\* C23: an order becomes courier_assigned only from status assigning, and
\* whenever an order is courier_assigned or in a later delivery phase it has
\* an assigned courier and a task bound to that courier and that order.
C23_AssignedOrderHasCourierAndTask ==
  [][\A o \in 1..Len(orders') :
       /\ (/\ orders'[o].status = "courier_assigned"
           /\ o \in 1..Len(orders) => orders[o].status # "courier_assigned")
          => (o \in 1..Len(orders) /\ orders[o].status = "assigning")
       /\ orders'[o].status \in DeliveryPhases
          => /\ orders'[o].assigned_courier_id # Null
             /\ \E t \in 1..Len(tasks') :
                  /\ tasks'[t].order_id = orders'[o].id
                  /\ tasks'[t].courier_id = orders'[o].assigned_courier_id]_vars

\* the items have a line with a zero or negative quantity
HasInvalidLine(items) == \E i \in 1..Len(items) : items[i].qty <= 0

\* C24: a create request that contains a line with a zero or negative
\* quantity is rejected as invalid items: it is answered with a client
\* error, and no step of it creates an order or changes a product.
C24_InvalidItemsRejected ==
  [][/\ \A r \in Reqs :
          (req[r].op = "create" /\ req'[r] # req[r] /\ HasInvalidLine(req[r].items))
          => products' = products /\ orders' = orders
     /\ (Answered("create") /\ HasInvalidLine(last'.items))
          => last'.res.code \in {400, 422}]_vars

\* C25: after a successful transitionTo(target, payload) the order's status
\* is target, whatever the payload carries.
C25_StatusIsTarget ==
  [][(Answered("transition") /\ last'.res.code = 200)
       => orders'[last'.oid].status = last'.arg]_vars

\* C26: when two cancel requests for the same order run concurrently, the
\* order's stock is released at most once, so that a reservation another
\* order holds on the product is not released: when the cancels have
\* finished, no product has less reserved than the orders that are not
\* cancelled hold.
C26_ReleasedAtMostOnce ==
  AllFree => \A p \in Products : products[p].reserved_quantity >= Held(p)

\* C27: under concurrent create and cancel requests no update of a product's
\* reserved quantity is lost: whenever no request is in flight, each
\* product's reserved quantity is the sum of the line quantities of the
\* orders that are not cancelled.
C27_NoLostUpdate ==
  \A p \in Products :
    (\A r \in Reqs : req[r] = Blank) => products[p].reserved_quantity = Held(p)

C29_KeyScopedToCustomer ==
  [][(/\ Answered("create")
      /\ last'.key \in ClientKeys
      /\ last'.res.code \in {200, 201})
     => \A o \in 1..Len(orders') :
          orders'[o].id = last'.res.orderId => orders'[o].user_id = last'.user]_vars

\* C30: a cancel request by a user who does not own the order is answered
\* "Order not found" (404) by the step that receives it, which changes no
\* order and no product, whatever the order's status; no cancel request of a
\* user who does not own the order gets past that step.
C30_ForeignCancelNotFound ==
  [][/\ (/\ Answered("cancel")
          /\ last'.oid \in 1..Len(orders)
          /\ orders[last'.oid].user_id # last'.user)
         => /\ last'.res.code = 404
            /\ last'.res.error = "Order not found"
            /\ orders' = orders
            /\ products' = products
     /\ \A r \in Reqs :
          req'[r].op = "cancel" => orders'[req'[r].oid].user_id = req'[r].user]_vars

\* user u2 has asked to cancel the confirmed order of u1, which the owner
\* could cancel, and was answered 404; the order is still confirmed and its
\* stock still reserved
C30_Witness ==
  /\ last.op = "cancel" /\ last.user = "u2" /\ last.oid = 1
  /\ last.res.code = 404
  /\ Len(orders) = 1 /\ orders[1].user_id = "u1" /\ orders[1].status = "confirmed"
  /\ products["p1"].reserved_quantity = 1

====
